---- MODULE Spec2Model ----
(***************************************************************************)
(* The ASSERT_OK lint pass of clippy_lints/src/assert_ok.rs.               *)
(*                                                                         *)
(* The pass is a callback, check_expr, that the host's HIR traversal calls *)
(* once per expression node.  The model keeps the pass value (self), the   *)
(* diagnostic sink reached through the LateContext, and a log of the       *)
(* invocations made so far.  Source text is modelled as token sequences,   *)
(* spans as token ranges with a syntax context, and the strings the lint   *)
(* formats are built by string concatenation.                              *)
(***************************************************************************)
EXTENDS Integers, Sequences, FiniteSets, TLC

VARIABLES
    self,   \* the pass value check_expr receives as &mut self
    sink,   \* the diagnostics emitted through the LateContext, in order
    log     \* one entry per invocation: its node, the number of conditions of
            \* the chain it evaluated, and the findings it appended to the sink

vars == <<self, sink, log>>

\* Number of check_expr invocations explored.
MaxCalls == 2

(***************************************************************************)
(* Option values.                                                          *)
(***************************************************************************)
None == [some |-> FALSE]

Some(x) == [some |-> TRUE, val |-> x]

(***************************************************************************)
(* Source text.  A file is a sequence of tokens; a span is a token range   *)
(* lo..hi of a file together with its syntax context: "root" for authored  *)
(* code, "expn" for code produced by a macro expansion.                    *)
(***************************************************************************)
RECURSIVE Join(_)
Join(toks) == IF toks = <<>> THEN "" ELSE Head(toks) \o Join(Tail(toks))

MkSpan(file, lo, hi, ctxt) == [file |-> file, lo |-> lo, hi |-> hi, ctxt |-> ctxt]

\* Receivers the statements are written with.
Receivers == {"r", "self.r", "m!()"}

recv_tokens(recv) ==
    CASE recv = "r"      -> <<"r">>
      [] recv = "self.r" -> <<"self", ".", "r">>
      [] recv = "m!()"   -> <<"m!", "(", ")">>

\* Shapes of the condition expression.
Conditions == {"is_ok", "is_ok_arg", "is_err", "field", "call"}

cond_tokens(cond, recv) ==
    CASE cond = "is_ok"     -> recv_tokens(recv) \o <<".", "is_ok", "(", ")">>
      [] cond = "is_ok_arg" -> recv_tokens(recv) \o <<".", "is_ok", "(", "1", ")">>
      [] cond = "is_err"    -> recv_tokens(recv) \o <<".", "is_err", "(", ")">>
      [] cond = "field"     -> recv_tokens(recv) \o <<".", "is_ok">>
      [] cond = "call"      -> <<"is_ok", "(">> \o recv_tokens(recv) \o <<")">>

\* Macros the statements invoke: core's assert! and assert_eq!, and a macro
\* of the crate under analysis.
Macros == {"assert", "assert_eq", "my_check"}

\* A statement is one macro invocation, alone in its file.
Stmt(mac, cond, recv, msg) == [mac |-> mac, cond |-> cond, recv |-> recv, msg |-> msg]

stmt_tokens(s) ==
    <<s.mac \o "!", "(">> \o cond_tokens(s.cond, s.recv)
        \o (IF s.msg THEN <<", ", "\"custom message\"">> ELSE <<>>)
        \o <<")">>

(***************************************************************************)
(* Files.  A file of the crate under analysis carries its text; the files  *)
(* of other crates, where the macros are defined, carry none.              *)
(***************************************************************************)
stmt_file(s) == [name |-> "main.rs", src |-> Some(stmt_tokens(s))]

macro_file(mac) ==
    [name |-> IF mac = "my_check" THEN "ext/macros.rs" ELSE "core/macros.rs", src |-> None]

macro_def_id(mac) ==
    CASE mac = "assert"    -> "core::assert"
      [] mac = "assert_eq" -> "core::assert_eq"
      [] mac = "my_check"  -> "ext::my_check"

(***************************************************************************)
(* Syntax contexts.  The root context marks authored code; an expansion    *)
(* context carries the macro's definition and the span of the invocation.  *)
(***************************************************************************)
RootCtxt == [root |-> TRUE]

call_site(s) == MkSpan(stmt_file(s), 1, Len(stmt_tokens(s)), RootCtxt)

ExpnCtxt(s) == [root |-> FALSE, def_id |-> macro_def_id(s.mac), call_site |-> call_site(s)]

(***************************************************************************)
(* The HIR of a statement.  Token 1 is the macro name, token 2 the opening *)
(* parenthesis, the condition starts at token 3.                           *)
(***************************************************************************)
recv_lo(s) == IF s.cond = "call" THEN 5 ELSE 3

recv_expr(s) ==
    [kind |-> "Path",
     span |-> IF s.recv = "m!()"
              THEN MkSpan(macro_file("my_check"), 1, 1,
                          [root |-> FALSE, def_id |-> macro_def_id("my_check"),
                           call_site |-> MkSpan(stmt_file(s), recv_lo(s),
                                                recv_lo(s) + Len(recv_tokens(s.recv)) - 1,
                                                RootCtxt)])
              ELSE MkSpan(stmt_file(s), recv_lo(s),
                          recv_lo(s) + Len(recv_tokens(s.recv)) - 1, RootCtxt)]

cond_span(s) == MkSpan(stmt_file(s), 3, 2 + Len(cond_tokens(s.cond, s.recv)), RootCtxt)

lit_expr(s) ==
    [kind |-> "Lit",
     span |-> MkSpan(stmt_file(s), 6 + Len(recv_tokens(s.recv)),
                     6 + Len(recv_tokens(s.recv)), RootCtxt)]

cond_expr(s) ==
    CASE s.cond = "is_ok" ->
           [kind |-> "MethodCall", ident |-> "is_ok", args |-> <<recv_expr(s)>>,
            span |-> cond_span(s)]
      [] s.cond = "is_ok_arg" ->
           [kind |-> "MethodCall", ident |-> "is_ok", args |-> <<recv_expr(s), lit_expr(s)>>,
            span |-> cond_span(s)]
      [] s.cond = "is_err" ->
           [kind |-> "MethodCall", ident |-> "is_err", args |-> <<recv_expr(s)>>,
            span |-> cond_span(s)]
      [] s.cond = "field" ->
           [kind |-> "Field", ident |-> "is_ok", args |-> <<recv_expr(s)>>,
            span |-> cond_span(s)]
      [] s.cond = "call" ->
           [kind |-> "Call", ident |-> "is_ok", args |-> <<recv_expr(s)>>,
            span |-> cond_span(s)]

msg_expr(s) ==
    [kind |-> "Lit",
     span |-> MkSpan(stmt_file(s), Len(stmt_tokens(s)) - 1, Len(stmt_tokens(s)) - 1,
                     RootCtxt)]

\* The authored expressions passed to the macro, in order.
macro_args(s) == <<cond_expr(s)>> \o (IF s.msg THEN <<msg_expr(s)>> ELSE <<>>)

(***************************************************************************)
(* Nodes handed to check_expr: an expression, the syntax context of its    *)
(* parent node, and, for the first node of an expansion, the authored      *)
(* expressions found in the expansion.                                     *)
(***************************************************************************)
Node(expr, parent_ctxt, inputs) ==
    [kind |-> expr.kind, ident |-> expr.ident, args |-> expr.args, span |-> expr.span,
     parent_ctxt |-> parent_ctxt, inputs |-> inputs]

\* The outermost node of the expansion of statement s.
root_node(s) ==
    Node([kind |-> "If", ident |-> "", args |-> <<>>,
          span |-> MkSpan(macro_file(s.mac), 1, 1, ExpnCtxt(s))],
         RootCtxt, macro_args(s))

\* The same, for an expansion whose arguments cannot be found.
odd_root_node(s) ==
    Node([kind |-> "If", ident |-> "", args |-> <<>>,
          span |-> MkSpan(macro_file(s.mac), 1, 1, ExpnCtxt(s))],
         RootCtxt, <<>>)

\* A synthesized node below the root of the expansion (the negated condition).
inner_node(s) ==
    Node([kind |-> "Unary", ident |-> "", args |-> <<cond_expr(s)>>,
          span |-> MkSpan(macro_file(s.mac), 2, 2, ExpnCtxt(s))],
         ExpnCtxt(s), <<>>)

\* The authored condition, a node inside the expansion.
cond_node(s) == Node(cond_expr(s), ExpnCtxt(s), <<>>)

\* The statement's nodes, as a traversal meets them.
stmt_nodes(s) == {root_node(s), inner_node(s), cond_node(s)}

\* An expression written outside any macro.
plain_node(s) == Node(cond_expr(s), RootCtxt, <<>>)

AssertStmts == {Stmt("assert", c, r, m) : c \in Conditions, r \in Receivers, m \in BOOLEAN}

OtherStmts == {Stmt(mac, "is_ok", "r", FALSE) : mac \in Macros \ {"assert"}}

Canonical == Stmt("assert", "is_ok", "r", FALSE)

Nodes ==
    {root_node(s) : s \in AssertStmts \cup OtherStmts}
        \cup {odd_root_node(Canonical), inner_node(Canonical), cond_node(Canonical),
              plain_node(Canonical)}

(***************************************************************************)
(* The helpers of clippy_utils and of the compiler that check_expr calls.  *)
(***************************************************************************)

\* The macro call whose expansion e is the first node of, when that call is
\* written in authored code.
root_macro_call_first_node(cx, e) ==
    IF e.span.ctxt.root THEN None
    ELSE IF ~e.parent_ctxt.root THEN None
    ELSE Some([def_id |-> e.span.ctxt.def_id, span |-> e.span.ctxt.call_site,
               expn |-> e.span.ctxt])

get_diagnostic_name(def_id) ==
    CASE def_id = "core::assert"    -> Some("assert_macro")
      [] def_id = "core::assert_eq" -> Some("assert_eq_macro")
      [] OTHER                      -> None

PanicEmpty == [tag |-> "Empty"]

PanicCustom(m) == [tag |-> "Custom", message |-> m]

\* The condition and the panic expansion of an assert: the first authored
\* expression is the condition, a further one is the message.
find_assert_args(cx, e, expn) ==
    IF Len(e.inputs) = 0 THEN None
    ELSE Some([condition |-> e.inputs[1],
               panic_expn |-> IF Len(e.inputs) = 1 THEN PanicEmpty
                              ELSE PanicCustom(e.inputs[2])])

\* The text a span denotes, when its file is loaded.
snippet_opt(cx, span) ==
    IF span.file.src.some /\ 1 <= span.lo /\ span.lo <= span.hi
           /\ span.hi <= Len(span.file.src.val)
    THEN Some(Join(SubSeq(span.file.src.val, span.lo, span.hi)))
    ELSE None

\* Hands one diagnostic to the sink of the context.
span_lint_and_sugg(cx, lint, sp, msg, help, sugg, applicability) ==
    Append(cx.sink, [lint |-> lint, span |-> sp, msg |-> msg, help |-> help,
                     sugg |-> sugg, applicability |-> applicability])

(***************************************************************************)
(* The lint and its pass.                                                  *)
(***************************************************************************)
ASSERT_OK == [name |-> "clippy::assert_ok", group |-> "style"]

\* The pass is a unit struct.
AssertOk == <<>>

\* rustc_errors::Applicability.
Applicability == {"MachineApplicable", "MaybeIncorrect", "HasPlaceholders", "Unspecified"}

\* The conditions of the chain, one definition per line of the source.
is_assert_any(macro_call) ==
    get_diagnostic_name(macro_call.def_id).some

is_assert_macro(macro_call) ==
    get_diagnostic_name(macro_call.def_id) = Some("assert_macro")

is_panic_any(panic_expn) == TRUE

is_panic_empty(panic_expn) == panic_expn = PanicEmpty

is_method_call(condition) == condition.kind = "MethodCall"

is_named_is(method_segment) == method_segment.ident \in {"is_ok", "is_err"}

is_named_is_ok(method_segment) == method_segment.ident = "is_ok"

method_receiver(args) == args[1]

receiver_snippet_or_default(cx, receiver) ==
    LET s == snippet_opt(cx, receiver.span) IN IF s.some THEN s ELSE Some("..")

receiver_snippet(cx, receiver) == snippet_opt(cx, receiver.span)

lint_span_condition(macro_call, condition) == condition.span

lint_span(macro_call, condition) == macro_call.span

\* TLA+ strings cannot hold a backquote: the message's two backquotes are
\* written as apostrophes.
lint_msg(snippet) == "'assert!(" \o snippet \o ".is_ok())' gives bad error message"

lint_sugg(snippet) == snippet \o ".unwrap()"

lint_applicability_machine == "MachineApplicable"

lint_applicability == "Unspecified"

no_match_reported(cx, n) ==
    [sink |-> Append(cx.sink, [lint |-> ASSERT_OK, msg |-> "not an assert on is_ok"]),
     evaluated |-> n]

\* The chain left at its n-th condition: nothing is emitted.
no_match(cx, n) == [sink |-> cx.sink, evaluated |-> n]

if_chain(cx, e) ==
    LET macro_call == root_macro_call_first_node(cx, e) IN
    IF ~macro_call.some THEN no_match(cx, 1)
    ELSE IF ~is_assert_macro(macro_call.val) THEN no_match(cx, 2)
    ELSE LET found == find_assert_args(cx, e, macro_call.val.expn) IN
    IF ~found.some THEN no_match(cx, 3)
    ELSE IF ~is_panic_empty(found.val.panic_expn) THEN no_match(cx, 4)
    ELSE IF ~is_method_call(found.val.condition) THEN no_match(cx, 5)
    ELSE IF ~is_named_is_ok(found.val.condition) THEN no_match(cx, 6)
    ELSE LET snippet == receiver_snippet(cx, method_receiver(found.val.condition.args)) IN
    IF ~snippet.some THEN no_match(cx, 7)
    ELSE [sink |-> span_lint_and_sugg(cx, ASSERT_OK,
                                      lint_span(macro_call.val, found.val.condition),
                                      lint_msg(snippet.val), "replace with",
                                      lint_sugg(snippet.val), lint_applicability),
          evaluated |-> 7]

\* A pass that remembers the spans it has reported on.
check_expr_once(this, cx, e) ==
    IF \E i \in 1..Len(this) : this[i] = e.span
    THEN [self |-> this, sink |-> cx.sink, evaluated |-> 0]
    ELSE LET r == if_chain(cx, e) IN
         [self |-> IF r.sink = cx.sink THEN this ELSE Append(this, e.span),
          sink |-> r.sink, evaluated |-> r.evaluated]

\* A pass that stays silent once the sink holds a diagnostic.
check_expr_first_only(this, cx, e) ==
    IF cx.sink # <<>>
    THEN [self |-> this, sink |-> cx.sink, evaluated |-> 0]
    ELSE LET r == if_chain(cx, e) IN
         [self |-> this, sink |-> r.sink, evaluated |-> r.evaluated]

check_expr(this, cx, e) ==
    LET r == if_chain(cx, e) IN
    [self |-> this, sink |-> r.sink, evaluated |-> r.evaluated]

(***************************************************************************)
(* The state machine: the host calls check_expr on nodes, in any order.    *)
(***************************************************************************)
LateContext == [sink |-> sink]

Init ==
    /\ self = AssertOk
    /\ sink = <<>>
    /\ log = <<>>

CheckExpr(e) ==
    /\ Len(log) < MaxCalls
    /\ LET r == check_expr(self, LateContext, e) IN
        /\ self' = r.self
        /\ sink' = r.sink
        /\ log' = Append(log, [node |-> e, evaluated |-> r.evaluated,
                               emitted |-> SubSeq(r.sink, Len(sink) + 1, Len(r.sink))])

Next == \E e \in Nodes : CheckExpr(e)

Spec == Init /\ [][Next]_vars

(***************************************************************************)
(* Vocabulary of the properties, read off the node itself.                 *)
(***************************************************************************)
Entries == 1..Len(log)

\* e is the outermost first node of an expansion of the plain assert macro.
IsPlainAssertRoot(e) ==
    /\ ~e.span.ctxt.root
    /\ e.parent_ctxt.root
    /\ e.span.ctxt.def_id = "core::assert"

Decomposed(e) == Len(e.inputs) >= 1

Condition(e) == e.inputs[1]

PanicKind(e) == IF Len(e.inputs) = 1 THEN "Empty" ELSE "Custom"

IsOkCall(e) == Condition(e).kind = "MethodCall" /\ Condition(e).ident = "is_ok"

Receiver(e) == Condition(e).args[1]

HasText(span) == span.file.src.some

Text(span) == Join(SubSeq(span.file.src.val, span.lo, span.hi))

\* The five stages, each read on nodes that passed the ones before.
StagePassed(e, k) ==
    CASE k = 1 -> IsPlainAssertRoot(e)
      [] k = 2 -> Decomposed(e)
      [] k = 3 -> PanicKind(e) = "Empty"
      [] k = 4 -> IsOkCall(e)
      [] k = 5 -> HasText(Receiver(e).span)

PassesUpTo(e, k) == \A j \in 1..k : StagePassed(e, j)

PassesAll(e) == PassesUpTo(e, 5)

\* The stage that the n-th condition of the chain belongs to.
StageOf(n) ==
    CASE n \in {1, 2} -> 1
      [] n = 3        -> 2
      [] n = 4        -> 3
      [] n \in {5, 6} -> 4
      [] n = 7        -> 5

RECURSIVE Flatten(_)
Flatten(ss) == IF ss = <<>> THEN <<>> ELSE Head(ss) \o Flatten(Tail(ss))

Emitted == Flatten([i \in Entries |-> log[i].emitted])

Range(s) == {s[i] : i \in 1..Len(s)}

\* C1: a plain assert root with Empty panic kind, an is_ok method call as
\* condition and a receiver with source text S yields exactly one finding,
\* whose message and suggestion hold S verbatim and whose span is the span of
\* the macro call, not the condition's and not the receiver's.
C1_OneFinding ==
    \A i \in Entries :
        LET e == log[i].node IN
        (PassesUpTo(e, 4) /\ HasText(Receiver(e).span)) =>
            LET S == Text(Receiver(e).span) IN
            /\ Len(log[i].emitted) = 1
            /\ log[i].emitted[1].msg = "'assert!(" \o S \o ".is_ok())' gives bad error message"
            /\ log[i].emitted[1].sugg = S \o ".unwrap()"
            /\ log[i].emitted[1].span = e.span.ctxt.call_site
            /\ log[i].emitted[1].span # Condition(e).span
            /\ log[i].emitted[1].span # Receiver(e).span

C1_Witness ==
    /\ Len(log) = 1
    /\ log[1].node = root_node(Stmt("assert", "is_ok", "self.r", FALSE))
    /\ Len(sink) = 1
    /\ sink[1].msg = "'assert!(self.r.is_ok())' gives bad error message"
    /\ sink[1].sugg = "self.r.unwrap()"
    /\ Text(sink[1].span) = "assert!(self.r.is_ok())"

\* C2: a plain assert whose panic kind is Custom yields no finding, whatever
\* its condition and receiver; a finding comes only from panic kind Empty.
C2_CustomIsSilent ==
    \A i \in Entries :
        LET e == log[i].node IN
        /\ (PassesUpTo(e, 2) /\ PanicKind(e) = "Custom") => log[i].emitted = <<>>
        /\ log[i].emitted # <<>> => PanicKind(e) = "Empty"

C2_Witness ==
    /\ Len(log) = 1
    /\ log[1].node = root_node(Stmt("assert", "is_ok", "r", TRUE))
    /\ Text(log[1].node.span.ctxt.call_site) = "assert!(r.is_ok(), \"custom message\")"
    /\ sink = <<>>

\* C3: a plain assert with Empty panic kind whose condition is an is_ok
\* method call with arguments besides the receiver yields no finding.
C3_NoExtraArguments ==
    \A i \in Entries :
        LET e == log[i].node IN
        (PassesUpTo(e, 4) /\ Len(Condition(e).args) > 1) => log[i].emitted = <<>>

\* C4: a plain assert with Empty panic kind yields no finding when its
\* condition is no method call or is a method call not named is_ok.
C4_OtherConditionsAreSilent ==
    \A i \in Entries :
        LET e == log[i].node IN
        (PassesUpTo(e, 3)
            /\ (Condition(e).kind # "MethodCall" \/ Condition(e).ident # "is_ok"))
        => log[i].emitted = <<>>

C4_Witness ==
    /\ Len(log) = 2
    /\ log[1].node = root_node(Stmt("assert", "is_err", "r", FALSE))
    /\ log[2].node = root_node(Stmt("assert", "field", "r", FALSE))
    /\ Text(log[1].node.span.ctxt.call_site) = "assert!(r.is_err())"
    /\ Text(log[2].node.span.ctxt.call_site) = "assert!(r.is_ok)"
    /\ sink = <<>>

\* C5: a node that is not the outermost first node of a plain assert
\* expansion (outside any expansion, inside one, or the root of another
\* macro) yields no finding, so the nodes of one assert!(r.is_ok()) yield one
\* finding per visit of its root.
C5_OnlyTheRoot ==
    /\ \A i \in Entries : ~IsPlainAssertRoot(log[i].node) => log[i].emitted = <<>>
    /\ Cardinality({i \in 1..Len(sink) : sink[i].span = call_site(Canonical)})
         = Cardinality({i \in Entries : log[i].node = root_node(Canonical)})
    /\ \A i \in Entries :
         log[i].node \in stmt_nodes(Canonical) =>
            Len(log[i].emitted) = (IF log[i].node = root_node(Canonical) THEN 1 ELSE 0)

C5_Witness ==
    /\ Len(log) = 2
    /\ {log[1].node, log[2].node} \in
          {{root_node(Canonical), cond_node(Canonical)},
           {root_node(Canonical), inner_node(Canonical)}}
    /\ Len(sink) = 1

\* C6: when the receiver's span has no source text, nothing is emitted even
\* if every earlier stage matched, and the replacement text of every finding
\* is the text of the receiver's span followed by .unwrap().
C6_NoFabricatedSnippet ==
    /\ \A i \in Entries :
         LET e == log[i].node IN
         (PassesUpTo(e, 4) /\ ~HasText(Receiver(e).span)) =>
            log[i].emitted = <<>> /\ log[i].evaluated = 7
    /\ \A k \in 1..Len(sink) :
         \E i \in Entries :
            /\ sink[k] \in Range(log[i].emitted)
            /\ PassesUpTo(log[i].node, 4)
            /\ HasText(Receiver(log[i].node).span)
            /\ sink[k].sugg = Text(Receiver(log[i].node).span) \o ".unwrap()"

C6_Witness ==
    /\ Len(log) = 1
    /\ log[1].node = root_node(Stmt("assert", "is_ok", "m!()", FALSE))
    /\ log[1].evaluated = 7
    /\ sink = <<>>

\* C7: every finding carries the same applicability, Unspecified, whatever
\* the node and the receiver text.
C7_FixedApplicability ==
    \A k \in 1..Len(sink) :
        /\ sink[k].applicability \in Applicability
        /\ sink[k].applicability = "Unspecified"

C7_Witness ==
    /\ Len(sink) = 2
    /\ sink[1].sugg = "r.unwrap()"
    /\ sink[2].sugg = "self.r.unwrap()"
    /\ sink[1].span # sink[2].span
    /\ sink[1].applicability = sink[2].applicability

\* C8: two invocations on the same node emit the same findings (none both
\* times, or identical ones), and an invocation leaves the pass as it was.
C8_Idempotent ==
    /\ self = AssertOk
    /\ \A i, j \in Entries :
         log[i].node = log[j].node =>
            /\ log[i].emitted = log[j].emitted
            /\ log[i].evaluated = log[j].evaluated

C8_Witness ==
    /\ Len(log) = 2
    /\ log[1].node = log[2].node
    /\ log[1].node = root_node(Canonical)
    /\ Len(sink) = 2
    /\ sink[1] = sink[2]

\* C9: what an invocation emits depends on its node alone: it is what a
\* fresh pass with an empty sink emits for that node, so the findings of two
\* nodes are the same in either order.
C9_OrderIndependent ==
    /\ \A i \in Entries :
         log[i].emitted = check_expr(AssertOk, [sink |-> <<>>], log[i].node).sink
    /\ Range(sink) =
         UNION {Range(check_expr(AssertOk, [sink |-> <<>>], log[i].node).sink) : i \in Entries}

C9_Witness ==
    /\ Len(log) = 2
    /\ log[1].node = root_node(Stmt("assert", "is_ok", "self.r", FALSE))
    /\ log[2].node = root_node(Canonical)
    /\ Len(sink) = 2
    /\ sink[1].sugg = "self.r.unwrap()"
    /\ sink[2].sugg = "r.unwrap()"

\* C10: the sink holds exactly what the invocations emitted, in order; an
\* invocation emits at most one finding, and emits one only if its node passed
\* all five stages; one that fails at a stage emits nothing and evaluates no
\* condition of a later stage.
C10_OnlyAfterAllStages ==
    /\ sink = Emitted
    /\ \A i \in Entries :
         LET e == log[i].node IN
         /\ Len(log[i].emitted) <= 1
         /\ log[i].emitted # <<>> => PassesAll(e)
         /\ \A k \in 1..5 :
              (PassesUpTo(e, k - 1) /\ ~StagePassed(e, k)) =>
                 /\ log[i].emitted = <<>>
                 /\ StageOf(log[i].evaluated) = k

C10_Witness ==
    /\ Len(log) = 2
    /\ log[1].node = root_node(Canonical)
    /\ log[2].node = root_node(Stmt("assert", "is_ok", "r", TRUE))
    /\ StageOf(log[2].evaluated) = 3
    /\ Len(sink) = 1
    /\ sink = log[1].emitted

====
